---- MODULE Spec2Model ----
(***************************************************************************)
(* Model of blk-reconnect.py: the mode classifier (is_dfu_mode,            *)
(* get_control_handle) and the reconnect loop of runthing.                 *)
(***************************************************************************)
EXTENDS Integers, Sequences, FiniteSets, TLC

(* ------------------------------ bounds --------------------------------- *)
\* Longest service table the transport hands back.
MaxSvcs == 2
\* Most connection sessions (successful connects) explored.
MaxSessions == 3
\* The per-session write counter saturates here.
MaxWrites == 2

(* ---------------------- SL_OTA_UUIDS, SL_OTA_COMMANDS ------------------- *)
\* The UUIDs as the source spells them (uuid.UUID accepts either case).
SL_OTA_UUIDS_SVC == "1d14d6ee-fd63-4fa1-bfa4-8f47b42119f0"
SL_OTA_UUIDS_CCONTROL == "F7BF3564-FB6D-4E53-88A4-5E37E0326063"
SL_OTA_UUIDS_CDATA == "984227F3-34FC-4045-A5D0-2C581F81A153"
SL_OTA_UUIDS_CAPP_VERSION == "0D77CC11-4AC1-49F2-BFA9-CD96AC7A92F8"

\* A service the peripheral also exposes that is not the OTA service
\* (Generic Access): what the transport reports, already lower case.
GenericAccessUuid == "00001800-0000-1000-8000-00805f9b34fb"

\* str(uuid.UUID(x)): the canonical lower-case form.
str_uuid(u) ==
    CASE u = SL_OTA_UUIDS_SVC -> "1d14d6ee-fd63-4fa1-bfa4-8f47b42119f0"
      [] u = SL_OTA_UUIDS_CCONTROL -> "f7bf3564-fb6d-4e53-88a4-5e37e0326063"
      [] u = SL_OTA_UUIDS_CDATA -> "984227f3-34fc-4045-a5d0-2c581f81a153"
      [] u = SL_OTA_UUIDS_CAPP_VERSION -> "0d77cc11-4ac1-49f2-bfa9-cd96ac7a92f8"

SL_OTA_COMMANDS_START == <<0>>
SL_OTA_COMMANDS_FINISH == <<3>>
SL_OTA_COMMANDS_DISCONNECT == <<4>>

(* ---------------------------- service tables --------------------------- *)
\* Python's None, as a characteristic-shaped value so it compares with one.
None == [uuid |-> "None", handle |-> <<>>]

\* `if plausible`: a characteristic object is truthy, None is not.
Truthy(x) == x # None

SeqsUpTo(S, n) == UNION {[1..k -> S] : k \in 0..n}

\* The uuid strings the transport reports (lower case).
SvcUuids == {str_uuid(SL_OTA_UUIDS_SVC), GenericAccessUuid}
CharUuids == {str_uuid(SL_OTA_UUIDS_CCONTROL), str_uuid(SL_OTA_UUIDS_CDATA),
              str_uuid(SL_OTA_UUIDS_CAPP_VERSION)}

\* The characteristic lists of one service entry: every ordering of every
\* subset of the three uuids, and the lists that repeat the control or the
\* data uuid (a stale duplicate inside one entry).
CharLists ==
    {cs \in SeqsUpTo(CharUuids, Cardinality(CharUuids)) :
        \A a, b \in 1..Len(cs) : a # b => cs[a] # cs[b]}
    \cup [1..2 -> {str_uuid(SL_OTA_UUIDS_CCONTROL), str_uuid(SL_OTA_UUIDS_CDATA)}]

ServiceShapes == [uuid : SvcUuids, chars : CharLists]

\* A service entry: its uuid, its handle and its characteristics in order;
\* every characteristic carries its own handle, unique within the table.
MkService(i, sh) ==
    [uuid |-> sh.uuid,
     handle |-> i,
     characteristics |->
        [j \in 1..Len(sh.chars) |-> [uuid |-> sh.chars[j], handle |-> <<i, j>>]]]

MkTable(shape) == [i \in 1..Len(shape) |-> MkService(i, shape[i])]

\* BleakGATTServiceCollection values: every ordered table within the bounds.
Tables == {MkTable(shape) : shape \in SeqsUpTo(ServiceShapes, MaxSvcs)}

(* ------------------------------ is_dfu_mode ---------------------------- *)
\* for c in s.characteristics: if c.uuid == str(CDATA): return True
RECURSIVE is_dfu_chars(_, _)
is_dfu_chars(chars, j) ==
    IF j > Len(chars) THEN FALSE
    ELSE IF chars[j].uuid = str_uuid(SL_OTA_UUIDS_CDATA) THEN TRUE
    ELSE is_dfu_chars(chars, j + 1)

\* for s in svcs: if s.uuid == str(SVC): ...; falls out of the loop: False
RECURSIVE is_dfu_svcs(_, _)
is_dfu_svcs(svcs, i) ==
    IF i > Len(svcs) THEN FALSE
    ELSE IF svcs[i].uuid = str_uuid(SL_OTA_UUIDS_SVC)
            /\ is_dfu_chars(svcs[i].characteristics, 1) THEN TRUE
    ELSE is_dfu_svcs(svcs, i + 1)

\* Mutant: the service uuid test is dropped.
RECURSIVE is_dfu_any_svc(_, _)
is_dfu_any_svc(svcs, i) ==
    IF i > Len(svcs) THEN FALSE
    ELSE IF is_dfu_chars(svcs[i].characteristics, 1) THEN TRUE
    ELSE is_dfu_any_svc(svcs, i + 1)

is_dfu_mode_NoSvcTest(svcs) == is_dfu_any_svc(svcs, 1)

\* Mutant: falling out of the loop answers True.
RECURSIVE is_dfu_svcs_DefaultTrue(_, _)
is_dfu_svcs_DefaultTrue(svcs, i) ==
    IF i > Len(svcs) THEN TRUE
    ELSE IF svcs[i].uuid = str_uuid(SL_OTA_UUIDS_SVC)
            /\ is_dfu_chars(svcs[i].characteristics, 1) THEN TRUE
    ELSE is_dfu_svcs_DefaultTrue(svcs, i + 1)

is_dfu_mode_DefaultTrue(svcs) == is_dfu_svcs_DefaultTrue(svcs, 1)

is_dfu_mode(svcs) == is_dfu_svcs(svcs, 1)

(* --------------------------- get_control_handle ------------------------ *)
\* The inner loop over one service's characteristics: the last control
\* characteristic seen becomes plausible, any data characteristic sets
\* real_ota_mode.
RECURSIVE scan_chars(_, _, _, _)
scan_chars(chars, j, plausible, real_ota_mode) ==
    IF j > Len(chars)
    THEN [plausible |-> plausible, real_ota_mode |-> real_ota_mode]
    ELSE LET c == chars[j]
             p == IF c.uuid = str_uuid(SL_OTA_UUIDS_CCONTROL) THEN c ELSE plausible
             r == IF c.uuid = str_uuid(SL_OTA_UUIDS_CDATA) THEN TRUE ELSE real_ota_mode
         IN scan_chars(chars, j + 1, p, r)

\* One pass of the outer loop body for service s, entered with plausible.
scan_service(s, plausible) ==
    IF s.uuid = str_uuid(SL_OTA_UUIDS_SVC)
    THEN scan_chars(s.characteristics, 1, plausible, FALSE)
    ELSE [plausible |-> plausible, real_ota_mode |-> FALSE]

\* The outer loop; reset is the value plausible takes at "plausible = None".
RECURSIVE scan_svcs(_, _, _, _)
scan_svcs(svcs, i, plausible, expected_ota) ==
    IF i > Len(svcs) THEN None
    ELSE LET r == scan_service(svcs[i], plausible)
         IN IF Truthy(r.plausible) /\ r.real_ota_mode = expected_ota
            THEN r.plausible
            ELSE scan_svcs(svcs, i + 1, None, expected_ota)

\* Mutant: plausible is not reset at the end of an iteration, so a control
\* characteristic survives into the next service entry.
RECURSIVE scan_svcs_NoReset(_, _, _, _)
scan_svcs_NoReset(svcs, i, plausible, expected_ota) ==
    IF i > Len(svcs) THEN None
    ELSE LET r == scan_service(svcs[i], plausible)
         IN IF Truthy(r.plausible) /\ r.real_ota_mode = expected_ota
            THEN r.plausible
            ELSE scan_svcs_NoReset(svcs, i + 1, r.plausible, expected_ota)

get_control_handle_NoReset(svcs, expected_ota) ==
    scan_svcs_NoReset(svcs, 1, None, expected_ota)

\* Mutant: the mode test is dropped, the first OTA entry with a control
\* characteristic wins.
RECURSIVE scan_svcs_FirstOta(_, _)
scan_svcs_FirstOta(svcs, i) ==
    IF i > Len(svcs) THEN None
    ELSE LET r == scan_service(svcs[i], None)
         IN IF Truthy(r.plausible) THEN r.plausible
            ELSE scan_svcs_FirstOta(svcs, i + 1)

get_control_handle_FirstOta(svcs, expected_ota) == scan_svcs_FirstOta(svcs, 1)

\* Mutant: the service uuid test is dropped, any service's control
\* characteristic is taken.
RECURSIVE scan_svcs_AnySvc(_, _, _)
scan_svcs_AnySvc(svcs, i, expected_ota) ==
    IF i > Len(svcs) THEN None
    ELSE LET r == scan_chars(svcs[i].characteristics, 1, None, FALSE)
         IN IF Truthy(r.plausible) /\ r.real_ota_mode = expected_ota
            THEN r.plausible
            ELSE scan_svcs_AnySvc(svcs, i + 1, expected_ota)

get_control_handle_AnySvc(svcs, expected_ota) == scan_svcs_AnySvc(svcs, 1, expected_ota)

get_control_handle(svcs, expected_ota) == scan_svcs(svcs, 1, None, expected_ota)

(* ========================= classifier harness ========================== *)
VARIABLES
    c_svcs,        \* the table handed to the classifier
    c_expected,    \* expected_ota handed to get_control_handle
    c_calls,       \* which of the two functions have returned
    c_mode,        \* what is_dfu_mode returned
    c_outcome,     \* how is_dfu_mode ended: "returned" or "raised"
    c_handle       \* what get_control_handle returned

cvars == <<c_svcs, c_expected, c_calls, c_mode, c_outcome, c_handle>>

CInit ==
    /\ c_svcs \in Tables
    /\ c_expected \in BOOLEAN
    /\ c_calls = {}
    /\ c_mode = FALSE
    /\ c_outcome = "pending"
    /\ c_handle = None

\* is_dfu_mode(svcs): has no raise statement, every path returns a bool.
CallIsDfuMode ==
    /\ "is_dfu_mode" \notin c_calls
    /\ c_mode' = is_dfu_mode(c_svcs)
    /\ c_outcome' = "returned"
    /\ c_calls' = c_calls \cup {"is_dfu_mode"}
    /\ UNCHANGED <<c_svcs, c_expected, c_handle>>

\* get_control_handle(svcs, expected_ota)
CallGetControlHandle ==
    /\ "get_control_handle" \notin c_calls
    /\ c_handle' = get_control_handle(c_svcs, c_expected)
    /\ c_calls' = c_calls \cup {"get_control_handle"}
    /\ UNCHANGED <<c_svcs, c_expected, c_mode, c_outcome>>

(* ============================== runthing =============================== *)
\* --device: the argparse default, and an advertised name.
DefaultDevice == "D0:CF:5E:D9:12:3D"

\* The devices that may advertise while the scanner runs.
Advertisers ==
    {[address |-> "D0:CF:5E:D9:12:3D", name |-> "ota-a"],
     [address |-> "11:22:33:44:55:66", name |-> "ota-b"]}

\* The operator's --device values explored: an address, a name, no match.
DeviceArgs == {DefaultDevice, "ota-b", "nobody"}

\* find_device_by_filter's None.
NoDevice == [address |-> "None", name |-> "None"]

\* The service entries the peripheral (or the transport's cache) reports in
\* the loop: the application's OTA entry, the bootloader's, OTA entries that
\* lack the control characteristic, and a non-OTA entry that happens to
\* hold characteristics with the control and data uuids.
PeripheralEntries ==
    {[uuid |-> str_uuid(SL_OTA_UUIDS_SVC),
      chars |-> <<str_uuid(SL_OTA_UUIDS_CCONTROL)>>],
     [uuid |-> str_uuid(SL_OTA_UUIDS_SVC),
      chars |-> <<str_uuid(SL_OTA_UUIDS_CCONTROL), str_uuid(SL_OTA_UUIDS_CDATA)>>],
     [uuid |-> str_uuid(SL_OTA_UUIDS_SVC),
      chars |-> <<str_uuid(SL_OTA_UUIDS_CDATA)>>],
     [uuid |-> str_uuid(SL_OTA_UUIDS_SVC),
      chars |-> <<str_uuid(SL_OTA_UUIDS_CAPP_VERSION)>>],
     [uuid |-> GenericAccessUuid,
      chars |-> <<str_uuid(SL_OTA_UUIDS_CCONTROL), str_uuid(SL_OTA_UUIDS_CDATA)>>]}

PeripheralTables == {MkTable(shape) : shape \in SeqsUpTo(PeripheralEntries, MaxSvcs)}

\* A write that was never made.
NoWrite ==
    [cmd |-> <<>>, char |-> None, response |-> FALSE, session |-> 0,
     connected |-> FALSE, svcs_session |-> 0]

VARIABLES
    pc,            \* where the runthing coroutine is suspended
    opts,          \* the parsed command line: device, reliable
    dev,           \* what find_device_by_filter returned
    connected,     \* client.is_connected
    disconn_event, \* the asyncio.Event: TRUE when set
    svcs,          \* the table of the last client.get_services()
    handle,        \* the control characteristic looked up in this cycle
    error,         \* the exception that ended runthing, "" while it runs
    session,       \* history: how many connects have succeeded
    svcs_session,  \* history: the session svcs was read in, 0 if read unconnected
    last_write,    \* history: the last write_gatt_char call
    sess_writes,   \* history: write calls made while connected, this session
    woke           \* history: the last return of disconn_event.wait()

ovars == <<pc, opts, dev, connected, disconn_event, svcs, handle, error,
           session, svcs_session, last_write, sess_writes, woke>>

OInit ==
    /\ pc = "discover"
    /\ opts \in [device : DeviceArgs, reliable : BOOLEAN]
    /\ dev = NoDevice
    /\ connected = FALSE
    /\ disconn_event = FALSE
    /\ svcs = <<>>
    /\ handle = None
    /\ error = ""
    /\ session = 0
    /\ svcs_session = 0
    /\ last_write = NoWrite
    /\ sess_writes = 0
    /\ woke = [session |-> 0, disconnected |-> TRUE]

\* my_filter(dev, adv)
my_filter(d) == d.address = opts.device \/ d.name = opts.device

\* Mutant: "if not dev: raise" is missing, the loop goes on without a device.
Discover_NoCheck ==
    /\ pc = "discover"
    /\ \E seen \in SUBSET Advertisers :
          LET matching == {d \in seen : my_filter(d)}
          IN IF matching = {}
             THEN dev' = NoDevice
             ELSE dev' \in matching
    /\ pc' = "connect"
    /\ UNCHANGED <<opts, connected, disconn_event, svcs, handle, error, session,
                   svcs_session, last_write, sess_writes, woke>>
    /\ UNCHANGED cvars

\* dev = await find_device_by_filter(my_filter); if not dev: raise
Discover ==
    /\ pc = "discover"
    /\ \E seen \in SUBSET Advertisers :
          LET matching == {d \in seen : my_filter(d)}
          IN IF matching = {}
             THEN /\ dev' = NoDevice
                  /\ pc' = "failed"
                  /\ error' = "NoDevice"
             ELSE /\ dev' \in matching
                  /\ pc' = "connect"
                  /\ error' = error
    /\ UNCHANGED <<opts, connected, disconn_event, svcs, handle, session,
                   svcs_session, last_write, sess_writes, woke>>
    /\ UNCHANGED cvars

\* async with BleakClient(dev, ...) as client: the first connect succeeds.
ConnectOk ==
    /\ pc = "connect"
    /\ session < MaxSessions
    /\ connected' = TRUE
    /\ session' = session + 1
    /\ sess_writes' = 0
    /\ pc' = "get_services"
    /\ UNCHANGED <<opts, dev, disconn_event, svcs, handle, error, svcs_session,
                   last_write, woke>>
    /\ UNCHANGED cvars

\* async with BleakClient(dev, ...): the first connect raises.
ConnectRaise ==
    /\ pc = "connect"
    /\ pc' = "failed"
    /\ error' = "ConnectError"
    /\ UNCHANGED <<opts, dev, connected, disconn_event, svcs, handle, session,
                   svcs_session, last_write, sess_writes, woke>>
    /\ UNCHANGED cvars

\* handle_disconnect1(d): the transport calls it when the link drops, while
\* the coroutine is suspended at any await.
handle_disconnect1 ==
    /\ connected
    /\ pc \in {"get_services", "write", "wait", "settle"}
    /\ connected' = FALSE
    /\ disconn_event' = TRUE
    /\ UNCHANGED <<pc, opts, dev, svcs, handle, error, session, svcs_session,
                   last_write, sess_writes, woke>>
    /\ UNCHANGED cvars

\* workaround_duplicate_charids = True
workaround_duplicate_charids == TRUE

\* sl_ota = [s for s in svcs if s.uuid == str(SL_OTA_UUIDS.SVC)]
sl_ota(t) == SelectSeq(t, LAMBDA s : s.uuid = str_uuid(SL_OTA_UUIDS_SVC))

\* What write_gatt_char is given when it is called with a uuid.
ByUuid(u) == [uuid |-> str_uuid(u), handle |-> <<>>]

\* write_gatt_char(char, cmd, True), called with the link up or down.
WriteCall(char, cmd) ==
    [cmd |-> cmd, char |-> char, response |-> TRUE, session |-> session,
     connected |-> connected, svcs_session |-> svcs_session']

\* Mutant: the bootloader branch looks the handle up for the other mode.
DispatchBootloader_ExpectApp(t) ==
    /\ handle' = get_control_handle(t, FALSE)
    /\ last_write' = WriteCall(handle', SL_OTA_COMMANDS_DISCONNECT)

\* Mutant: the application branch sends the command of its unused else arm.
DispatchApplication_Disconnect(t) ==
    /\ handle' = get_control_handle(t, FALSE)
    /\ last_write' = WriteCall(handle', SL_OTA_COMMANDS_DISCONNECT)

\* The two branches of "if is_dfu_mode(svcs)": the characteristic looked up
\* (or the bare uuid) and the command that goes with it.
DispatchBootloader(t) ==
    IF workaround_duplicate_charids
    THEN /\ handle' = get_control_handle(t, TRUE)
         /\ last_write' = WriteCall(handle', SL_OTA_COMMANDS_DISCONNECT)
    ELSE /\ handle' = handle
         /\ last_write' = WriteCall(ByUuid(SL_OTA_UUIDS_CCONTROL), SL_OTA_COMMANDS_DISCONNECT)

DispatchApplication(t) ==
    IF workaround_duplicate_charids
    THEN /\ handle' = get_control_handle(t, FALSE)
         /\ last_write' = WriteCall(handle', SL_OTA_COMMANDS_START)
    ELSE /\ handle' = handle
         /\ last_write' = WriteCall(ByUuid(SL_OTA_UUIDS_CCONTROL), SL_OTA_COMMANDS_DISCONNECT)

\* Mutant: the two commands are swapped.
DispatchSwapped(t) ==
    IF is_dfu_mode(t)
    THEN /\ handle' = get_control_handle(t, TRUE)
         /\ last_write' = WriteCall(handle', SL_OTA_COMMANDS_START)
    ELSE /\ handle' = get_control_handle(t, FALSE)
         /\ last_write' = WriteCall(handle', SL_OTA_COMMANDS_DISCONNECT)

\* if is_dfu_mode(svcs): ... else: ...
Dispatch(t) ==
    IF is_dfu_mode(t) THEN DispatchBootloader(t) ELSE DispatchApplication(t)

Min(a, b) == IF a < b THEN a ELSE b

\* Mutant: the "len(sl_ota) < 1" test is missing.
GetServices_NoOtaCheck ==
    /\ pc = "get_services"
    /\ \E t \in PeripheralTables :
          /\ svcs' = t
          /\ svcs_session' = IF connected THEN session ELSE 0
          /\ Dispatch(t)
          /\ sess_writes' = IF connected
                             THEN Min(sess_writes + 1, MaxWrites)
                             ELSE sess_writes
          /\ pc' = "write"
          /\ error' = error
    /\ UNCHANGED <<opts, dev, connected, disconn_event, session, woke>>
    /\ UNCHANGED cvars

\* svcs = await client.get_services() returns a table; the loop body runs on
\* to the write call, where it suspends again.  The transport may hand back
\* a cached table after the link has dropped.
GetServices ==
    /\ pc = "get_services"
    /\ \E t \in PeripheralTables :
          /\ svcs' = t
          /\ svcs_session' = IF connected THEN session ELSE 0
          /\ IF Len(sl_ota(t)) < 1
             THEN /\ pc' = "failed"
                  /\ error' = "NoOtaService"
                  /\ UNCHANGED <<handle, last_write, sess_writes>>
             ELSE /\ Dispatch(t)
                  /\ sess_writes' = IF connected
                                     THEN Min(sess_writes + 1, MaxWrites)
                                     ELSE sess_writes
                  /\ pc' = "write"
                  /\ error' = error
    /\ UNCHANGED <<opts, dev, connected, disconn_event, session, woke>>
    /\ UNCHANGED cvars

\* client.get_services() raises because the link is down.
GetServicesRaise ==
    /\ pc = "get_services"
    /\ ~connected
    /\ pc' = "failed"
    /\ error' = "GetServicesError"
    /\ UNCHANGED <<opts, dev, connected, disconn_event, svcs, handle, session,
                   svcs_session, last_write, sess_writes, woke>>
    /\ UNCHANGED cvars

\* answer = await client.write_gatt_char(...) returns; either print; the
\* loop goes on to disconn_event.wait().
WriteReturn ==
    /\ pc = "write"
    /\ pc' = "wait"
    /\ UNCHANGED <<opts, dev, connected, disconn_event, svcs, handle, error,
                   session, svcs_session, last_write, sess_writes, woke>>
    /\ UNCHANGED cvars

\* client.write_gatt_char(...) raises (no such characteristic, link lost):
\* nothing in runthing catches it.
WriteRaise ==
    /\ pc = "write"
    /\ pc' = "failed"
    /\ error' = "WriteError"
    /\ UNCHANGED <<opts, dev, connected, disconn_event, svcs, handle, session,
                   svcs_session, last_write, sess_writes, woke>>
    /\ UNCHANGED cvars

\* await disconn_event.wait() returns once the event is set (it is never
\* cleared), then "while not client.is_connected" is tested at once.
WaitReturn ==
    /\ pc = "wait"
    /\ disconn_event
    /\ woke' = [session |-> session, disconnected |-> ~connected]
    /\ pc' = IF ~connected THEN "sleep1" ELSE "settle"
    /\ UNCHANGED <<opts, dev, connected, disconn_event, svcs, handle, error,
                   session, svcs_session, last_write, sess_writes>>
    /\ UNCHANGED cvars

\* await asyncio.sleep(1)
Sleep1 ==
    /\ pc = "sleep1"
    /\ pc' = "reconnect"
    /\ UNCHANGED <<opts, dev, connected, disconn_event, svcs, handle, error,
                   session, svcs_session, last_write, sess_writes, woke>>
    /\ UNCHANGED cvars

\* await client.connect() succeeds: the while test then ends the loop.
ReconnectOk ==
    /\ pc = "reconnect"
    /\ session < MaxSessions
    /\ connected' = TRUE
    /\ session' = session + 1
    /\ sess_writes' = 0
    /\ pc' = "settle"
    /\ UNCHANGED <<opts, dev, disconn_event, svcs, handle, error, svcs_session,
                   last_write, woke>>
    /\ UNCHANGED cvars

\* await client.connect() returns without a link: the while test loops.
ReconnectNotConnected ==
    /\ pc = "reconnect"
    /\ pc' = "sleep1"
    /\ UNCHANGED <<opts, dev, connected, disconn_event, svcs, handle, error,
                   session, svcs_session, last_write, sess_writes, woke>>
    /\ UNCHANGED cvars

\* await client.connect() raises: nothing in runthing catches it.
ReconnectRaise ==
    /\ pc = "reconnect"
    /\ pc' = "failed"
    /\ error' = "ReconnectError"
    /\ UNCHANGED <<opts, dev, connected, disconn_event, svcs, handle, session,
                   svcs_session, last_write, sess_writes, woke>>
    /\ UNCHANGED cvars

\* await asyncio.sleep(5), then round the loop again.
Settle ==
    /\ pc = "settle"
    /\ pc' = "get_services"
    /\ UNCHANGED <<opts, dev, connected, disconn_event, svcs, handle, error,
                   session, svcs_session, last_write, sess_writes, woke>>
    /\ UNCHANGED cvars

(* ------------------------------ peripheral ----------------------------- *)
\* The peripheral the loop talks to, as far as the loop's effect on it is
\* concerned: it changes mode on every command it receives and reports a
\* table of its present mode.
VARIABLES
    p_mode,        \* TRUE while the peripheral runs its bootloader
    delivered,     \* the pending or last write has reached the peripheral
    written,       \* history: the last two commands written
    received       \* history: the last two commands the peripheral received

pvars == <<p_mode, delivered, written, received>>

vars == <<ovars, cvars, pvars>>

NoCommands == [prev |-> <<>>, prev_delivered |-> FALSE, last |-> <<>>]

\* The peripheral is not followed.
PIdle ==
    /\ p_mode = FALSE
    /\ delivered = FALSE
    /\ written = NoCommands
    /\ received = NoCommands

PInit ==
    /\ p_mode \in BOOLEAN
    /\ delivered = FALSE
    /\ written = NoCommands
    /\ received = NoCommands

\* Table t is one a peripheral in mode m reports: it has the OTA service,
\* and every OTA entry has the control characteristic and has the data
\* characteristic exactly in bootloader mode.
TableReflects(t, m) ==
    /\ \E i \in 1..Len(t) : t[i].uuid = str_uuid(SL_OTA_UUIDS_SVC)
    /\ \A i \in 1..Len(t) :
          t[i].uuid = str_uuid(SL_OTA_UUIDS_SVC) =>
              /\ \E j \in 1..Len(t[i].characteristics) :
                    t[i].characteristics[j].uuid = str_uuid(SL_OTA_UUIDS_CCONTROL)
              /\ m <=> \E j \in 1..Len(t[i].characteristics) :
                          t[i].characteristics[j].uuid = str_uuid(SL_OTA_UUIDS_CDATA)

\* get_services through the write call, against that peripheral.
P_GetServices ==
    /\ GetServices
    /\ TableReflects(svcs', p_mode)
    /\ delivered' = FALSE
    /\ written' = [prev |-> written.last, prev_delivered |-> delivered,
                   last |-> last_write'.cmd]
    /\ UNCHANGED <<p_mode, received>>

\* The pending write reaches the peripheral over the live link: it changes
\* mode (and reboots, which the loop sees as handle_disconnect1).
PeripheralReceives ==
    /\ pc = "write"
    /\ connected
    /\ ~delivered
    /\ Truthy(last_write.char)
    /\ p_mode' = ~p_mode
    /\ delivered' = TRUE
    /\ received' = [prev |-> received.last, prev_delivered |-> TRUE,
                    last |-> last_write.cmd]
    /\ UNCHANGED <<ovars, cvars, written>>

\* write_gatt_char(..., True) returns: on a live link only once the
\* peripheral has the command.
P_WriteReturn ==
    /\ WriteReturn
    /\ connected => delivered
    /\ UNCHANGED pvars

(* ---------------------------- specifications --------------------------- *)
\* The classifier is idle while the loop runs.
CIdle ==
    /\ c_svcs = <<>>
    /\ c_expected = FALSE
    /\ c_calls = {}
    /\ c_mode = FALSE
    /\ c_outcome = "pending"
    /\ c_handle = None

Init == OInit /\ CIdle /\ PIdle

Next ==
    \/ Discover /\ UNCHANGED pvars
    \/ ConnectOk /\ UNCHANGED pvars
    \/ ConnectRaise /\ UNCHANGED pvars
    \/ handle_disconnect1 /\ UNCHANGED pvars
    \/ GetServices /\ UNCHANGED pvars
    \/ GetServicesRaise /\ UNCHANGED pvars
    \/ WriteReturn /\ UNCHANGED pvars
    \/ WriteRaise /\ UNCHANGED pvars
    \/ WaitReturn /\ UNCHANGED pvars
    \/ Sleep1 /\ UNCHANGED pvars
    \/ ReconnectOk /\ UNCHANGED pvars
    \/ ReconnectNotConnected /\ UNCHANGED pvars
    \/ ReconnectRaise /\ UNCHANGED pvars
    \/ Settle /\ UNCHANGED pvars

Spec == Init /\ [][Next]_vars

\* The loop does not run while the classifier is exercised on its own.
OIdle ==
    /\ pc = "idle"
    /\ opts = [device |-> DefaultDevice, reliable |-> FALSE]
    /\ dev = NoDevice
    /\ connected = FALSE
    /\ disconn_event = FALSE
    /\ svcs = <<>>
    /\ handle = None
    /\ error = ""
    /\ session = 0
    /\ svcs_session = 0
    /\ last_write = NoWrite
    /\ sess_writes = 0
    /\ woke = [session |-> 0, disconnected |-> TRUE]

InitClassifier == CInit /\ OIdle /\ PIdle

NextClassifier ==
    \/ CallIsDfuMode /\ UNCHANGED <<ovars, pvars>>
    \/ CallGetControlHandle /\ UNCHANGED <<ovars, pvars>>

SpecClassifier == InitClassifier /\ [][NextClassifier]_vars

\* The loop against a peripheral that toggles on every command it receives.
InitPeripheral == OInit /\ CIdle /\ PInit

NextPeripheral ==
    \/ P_GetServices
    \/ PeripheralReceives
    \/ P_WriteReturn
    \/ Discover /\ UNCHANGED pvars
    \/ ConnectOk /\ UNCHANGED pvars
    \/ ConnectRaise /\ UNCHANGED pvars
    \/ handle_disconnect1 /\ UNCHANGED pvars
    \/ GetServicesRaise /\ UNCHANGED pvars
    \/ WriteRaise /\ UNCHANGED pvars
    \/ WaitReturn /\ UNCHANGED pvars
    \/ Sleep1 /\ UNCHANGED pvars
    \/ ReconnectOk /\ UNCHANGED pvars
    \/ ReconnectNotConnected /\ UNCHANGED pvars
    \/ ReconnectRaise /\ UNCHANGED pvars
    \/ Settle /\ UNCHANGED pvars

SpecPeripheral == InitPeripheral /\ [][NextPeripheral]_vars

(* =============================== claims ================================ *)
\* Service entry s has a characteristic with the uuid u (lower case).
HasUuid(s, u) ==
    \E j \in 1..Len(s.characteristics) : s.characteristics[j].uuid = u

IsOta(s) == s.uuid = "1d14d6ee-fd63-4fa1-bfa4-8f47b42119f0"
HasControl(s) == HasUuid(s, "f7bf3564-fb6d-4e53-88a4-5e37e0326063")
HasData(s) == HasUuid(s, "984227f3-34fc-4045-a5d0-2c581f81a153")

\* Some OTA service entry of t carries the data characteristic.
OtaEntryCarriesData(t) == \E i \in 1..Len(t) : IsOta(t[i]) /\ HasData(t[i])

\* t has at least one OTA service entry.
ContainsOta(t) == \E i \in 1..Len(t) : IsOta(t[i])

\* Characteristic c is one of the characteristics of entry i of t.
BelongsTo(c, t, i) ==
    /\ i \in 1..Len(t)
    /\ \E j \in 1..Len(t[i].characteristics) : t[i].characteristics[j] = c

\* Entry s is an OTA entry with a control characteristic whose data
\* presence equals (mode = Bootloader).
Qualifies(s, mode) == IsOta(s) /\ HasControl(s) /\ (HasData(s) <=> mode)

QualifyingEntries(t, mode) == {i \in 1..Len(t) : Qualifies(t[i], mode)}

\* C1: in every cycle in which a command is written, the bytes are
\* DISCONNECT [4] exactly when an OTA entry of the table enumerated in that
\* cycle carries the data characteristic, and START [0] exactly when none does.
C1_CommandMatchesMode ==
    pc = "write" =>
        /\ (last_write.cmd = <<4>>) <=> OtaEntryCarriesData(svcs)
        /\ (last_write.cmd = <<0>>) <=> ~OtaEntryCarriesData(svcs)

\* C1 witness: DISCONNECT was just written for a table whose first OTA entry
\* is the application's and whose second is the bootloader's.
C1_Witness ==
    /\ pc = "write"
    /\ last_write.cmd = <<4>>
    /\ Len(svcs) = 2
    /\ IsOta(svcs[1]) /\ ~HasData(svcs[1])
    /\ IsOta(svcs[2]) /\ HasData(svcs[2])

\* C2: every return of disconn_event.wait() comes after the disconnect
\* notification of the session it was awaited in (the link of that session
\* is down when the wait returns).
C2_WaitPerSession == woke.disconnected

\* C3: every write call is made with the link up, on a handle from the table
\* that was enumerated in the session the write is made in.
C3_WriteInEnumeratingSession ==
    last_write # NoWrite =>
        /\ last_write.connected
        /\ last_write.svcs_session = last_write.session

\* C4: at most one write call is made per connection session.
C4_OneWritePerSession == sess_writes <= 1

\* C5: a connect failure in the reconnect loop never ends runthing.
C5_ReconnectFailureNotFatal == ~(pc = "failed" /\ error = "ReconnectError")

\* C6: when get_control_handle returned None in a cycle, runthing does not
\* fail on the write of that cycle.
C6_MissingControlAbsorbed ==
    ~(pc = "failed" /\ error = "WriteError" /\ last_write.char = None)

\* C7: get_control_handle returns a control characteristic of the first
\* entry, in table order, that is an OTA entry with a control characteristic
\* and whose data presence equals expected_ota; None exactly when there is
\* no such entry.
C7_FirstQualifyingEntry ==
    "get_control_handle" \in c_calls =>
        LET Q == QualifyingEntries(c_svcs, c_expected)
        IN IF Q = {}
           THEN c_handle = None
           ELSE /\ c_handle # None
                /\ c_handle.uuid = "f7bf3564-fb6d-4e53-88a4-5e37e0326063"
                /\ \E i \in Q : /\ BelongsTo(c_handle, c_svcs, i)
                                /\ \A k \in Q : i <= k

\* C7 witness: the result comes from an entry that follows an OTA entry
\* with a control characteristic, which was skipped.
C7_Witness ==
    /\ "get_control_handle" \in c_calls
    /\ c_handle # None
    /\ \E i \in 1..Len(c_svcs) :
          /\ BelongsTo(c_handle, c_svcs, i)
          /\ \E k \in 1..(i - 1) : IsOta(c_svcs[k]) /\ HasControl(c_svcs[k])

\* C8: get_control_handle never returns a characteristic that is not a
\* control characteristic of an OTA entry whose own data presence equals
\* expected_ota.
C8_NeverFromDisagreeingEntry ==
    ("get_control_handle" \in c_calls /\ c_handle # None) =>
        \E i \in 1..Len(c_svcs) :
            /\ BelongsTo(c_handle, c_svcs, i)
            /\ c_handle.uuid = "f7bf3564-fb6d-4e53-88a4-5e37e0326063"
            /\ IsOta(c_svcs[i])
            /\ HasData(c_svcs[i]) <=> c_expected

\* C8 witness: a result was returned although another entry of the table
\* holds a control characteristic under the other mode or outside OTA.
C8_Witness ==
    /\ "get_control_handle" \in c_calls
    /\ c_handle # None
    /\ \E k \in 1..Len(c_svcs) :
          /\ ~BelongsTo(c_handle, c_svcs, k)
          /\ HasControl(c_svcs[k])
          /\ ~IsOta(c_svcs[k]) \/ (HasData(c_svcs[k]) <=> ~c_expected)

\* C9: on a table that contains the OTA service, is_dfu_mode returns True
\* exactly when an OTA entry carries a data characteristic; a data
\* characteristic under another service does not count.
C9_DetectMode ==
    ("is_dfu_mode" \in c_calls /\ ContainsOta(c_svcs)) =>
        (c_mode <=> OtaEntryCarriesData(c_svcs))

\* C9 witness: Application was returned for a table whose only data
\* characteristic sits under a non-OTA service.
C9_Witness ==
    /\ "is_dfu_mode" \in c_calls
    /\ ContainsOta(c_svcs)
    /\ ~c_mode
    /\ \E k \in 1..Len(c_svcs) : ~IsOta(c_svcs[k]) /\ HasData(c_svcs[k])

\* C10 as claimed: on a table without an OTA entry is_dfu_mode raises
\* instead of returning a mode.
C10_NoOtaRaises ==
    ("is_dfu_mode" \in c_calls /\ ~ContainsOta(c_svcs)) => c_outcome = "raised"

\* C10 as amended: on a table without an OTA entry is_dfu_mode returns
\* False (Application) and raises nothing.
C10_NoOtaReturnsFalse ==
    ("is_dfu_mode" \in c_calls /\ ~ContainsOta(c_svcs)) =>
        (c_outcome = "returned" /\ c_mode = FALSE)

\* C10 witness: is_dfu_mode has returned on a table without an OTA entry
\* in which a non-OTA service carries the data characteristic.
C10_Witness ==
    /\ "is_dfu_mode" \in c_calls
    /\ ~ContainsOta(c_svcs)
    /\ c_outcome = "returned"
    /\ \E k \in 1..Len(c_svcs) : HasData(c_svcs[k])

\* C11: the step that enumerates a table without an OTA entry ends runthing
\* with the missing-service error and makes no write call; once runthing
\* has ended nothing more happens (no write, no wait, no reconnect).
C11_NoOtaHalts ==
    [][/\ (/\ pc = "get_services"
           /\ pc' # "get_services"
           /\ error' # "GetServicesError"
           /\ ~ContainsOta(svcs'))
            => (/\ pc' = "failed"
                /\ error' = "NoOtaService"
                /\ last_write' = last_write
                /\ sess_writes' = sess_writes)
       /\ (pc = "failed")
            => (/\ pc' = "failed"
                /\ last_write' = last_write
                /\ woke' = woke
                /\ session' = session
                /\ connected' = connected)]_vars

\* C11 witness: runthing has ended on the missing-service error in a cycle
\* after a reconnect, with the write of the earlier cycle as its last one.
C11_Witness ==
    /\ pc = "failed"
    /\ error = "NoOtaService"
    /\ ~ContainsOta(svcs)
    /\ session >= 2
    /\ last_write.session < session

\* C12: when the disconnect notification fires while a write made on the
\* live link is still pending, runthing does not end on that write.
C12_MidWriteDisconnectSurvives ==
    ~(/\ pc = "failed"
      /\ error = "WriteError"
      /\ last_write.connected
      /\ last_write.session = session
      /\ ~connected)

\* C13: runthing ends only when no peripheral matched or the table has no
\* OTA service (and, as the propagation policy allows, when the first
\* connect fails); never on a write error or on a connect error while
\* reconnecting.
C13_OnlyFatalConditionsHalt ==
    pc = "failed" => error \in {"NoDevice", "NoOtaService", "ConnectError"}

\* Device d matches the operator's identifier by address or by name.
Matches(d, id) == d.address = id \/ d.name = id

\* C14: when discovery ends without a match runthing has failed with no
\* connect, enumeration or write behind it; otherwise it went on with a
\* device that matches --device by address or by name.
C14_NoMatchIsFatal ==
    pc # "discover" =>
        IF dev \notin Advertisers
        THEN /\ pc = "failed"
             /\ error = "NoDevice"
             /\ session = 0
             /\ ~connected
             /\ svcs = <<>>
             /\ last_write = NoWrite
        ELSE /\ Matches(dev, opts.device)
             /\ error # "NoDevice"

\* C14 witness: discovery failed although a device with the requested name
\* exists (it was not heard before the scan timed out).
C14_Witness ==
    /\ pc = "failed"
    /\ error = "NoDevice"
    /\ \E d \in Advertisers : Matches(d, opts.device)

\* C15: every write call asks for a response exactly when --reliable is set.
C15_ResponseFollowsFlag ==
    last_write # NoWrite => (last_write.response <=> opts.reliable)

\* C16: when the enumerated table has an OTA entry and every OTA entry has
\* a control characteristic, the write of that cycle has a real handle.
C16_HandleFound ==
    (/\ pc = "write"
     /\ ContainsOta(svcs)
     /\ \A i \in 1..Len(svcs) : IsOta(svcs[i]) => HasControl(svcs[i]))
        => last_write.char # None

\* C16 witness: a write with a real handle for a table that lists the
\* bootloader's OTA entry before the application's.
C16_Witness ==
    /\ pc = "write"
    /\ Len(svcs) = 2
    /\ IsOta(svcs[1]) /\ HasControl(svcs[1]) /\ HasData(svcs[1])
    /\ IsOta(svcs[2]) /\ HasControl(svcs[2]) /\ ~HasData(svcs[2])
    /\ last_write.char # None

\* C18: every write carries START [0] or DISCONNECT [4], never FINISH [3],
\* and its target, when there is one, is a control characteristic of an
\* OTA entry of the table of that cycle.
C18_OnlyStartOrDisconnect ==
    /\ last_write # NoWrite =>
          (last_write.cmd \in {<<0>>, <<4>>} /\ last_write.cmd # <<3>>)
    /\ (pc = "write" /\ last_write.char # None) =>
          /\ last_write.char.uuid = "f7bf3564-fb6d-4e53-88a4-5e37e0326063"
          /\ \E i \in 1..Len(svcs) :
                IsOta(svcs[i]) /\ BelongsTo(last_write.char, svcs, i)

\* C18 witness: a write to a real handle for a table in which a non-OTA
\* service holds control and data characteristics ahead of the OTA entry.
C18_Witness ==
    /\ pc = "write"
    /\ last_write.char # None
    /\ Len(svcs) = 2
    /\ ~IsOta(svcs[1]) /\ HasControl(svcs[1]) /\ HasData(svcs[1])

\* C19: once connected, and while the tables expose the OTA service,
\* runthing never halts.
C19_NeverHalts ==
    (session >= 1 /\ ContainsOta(svcs)) => pc # "failed"

\* C17 as claimed: against a peripheral that toggles on every command it
\* receives and reports its present mode, no command is written twice in a
\* row.
C17_WrittenAlternate ==
    written.prev # <<>> => written.prev # written.last

\* C17 as amended: the commands the peripheral receives alternate, and a
\* command is written twice in a row exactly when the first of the two
\* never reached the peripheral.
C17_ReceivedAlternate ==
    /\ received.prev # <<>> => received.prev # received.last
    /\ written.prev # <<>> =>
          ((written.prev = written.last) <=> ~written.prev_delivered)

\* C17 witness: the peripheral has received two commands and the loop has
\* since written the same command twice in a row.
C17_Witness ==
    /\ received.prev # <<>>
    /\ written.prev # <<>>
    /\ written.prev = written.last

====
